---------------------------- MODULE Spec2Model ----------------------------
(***************************************************************************)
(* Model of nodemonitor's per-node head tracking (nodes/nodes.go):         *)
(* RPCNode.Version, UpdateLatest, throttledGetHeader, fetchHeader,         *)
(* BlockAt, HashAt, and the Report built by NewReport / AddToReport; and   *)
(* of the dashboard that draws the report (www/script.js): the row marks   *)
(* of onData and the block cache miniFIFO.                                 *)
(*                                                                         *)
(* The RPC provider behind a node is the environment.  It serves one of    *)
(* NumForks competing chains.  Every RPC either fails or is answered from  *)
(* a chain the provider may be on at that moment: any chain when the       *)
(* provider is free to reorganise between any two calls (also between the  *)
(* calls of one ancestry walk), only `canon[n]` when it is stable.         *)
(***************************************************************************)
EXTENDS Integers, Sequences, FiniteSets, TLC

VARIABLES
    canon,          \* provider of node n: the chain it serves while stable
    chainHistory,   \* RPCNode.chainHistory: height -> blockInfo
    latest,         \* RPCNode.latest: blockInfo or Nil
    lastProgress,   \* RPCNode.lastProgress (unix time, 0 = never)
    headGauge,      \* RPCNode.headGauge value
    version,        \* RPCNode.version
    status,         \* RPCNode.status
    lastCheck,      \* RPCNode.lastCheck["web3_clientVersion"]
    db,             \* blockDB shared by the nodes: set of stored hashes, or NoDb
    throttle,       \* RPCNode.throttle: "unlimited" or "limited"
    lastVersionCall,\* time the last web3_clientVersion request was issued
    now,            \* wall clock, seconds
    report,         \* the Report under construction
    miniFIFO,       \* the dashboard's miniFIFO: its data and fifo members
    out             \* observable result of the last operation

vars == <<canon, chainHistory, latest, lastProgress, headGauge, version,
          status, lastCheck, db, throttle, lastVersionCall, now, report,
          miniFIFO, out>>

---------------------------------------------------------------------------
(* Bounds of the model *)

MaxHeight == 2
NumForks == 2
MaxTime == 2
MaxClock == 33
MaxNumbers == 2
MaxWait == 1
MaxCols == 3

Nodes == {"n1", "n2"}
Heights == 0..MaxHeight
Forks == 1..NumForks

---------------------------------------------------------------------------
(* Program constants *)

NodeStatusOK == 0
NodeStatusUnreachable == 1
VersionPeriod == 30

\* a nil *blockInfo / nil *big.Int ("latest") / nil *blockDB
Nil == [nil |-> TRUE]
Latest == [latest |-> TRUE]
At(h) == [at |-> h]
NoDb == [nodb |-> TRUE]

\* time.Time{} : the zero time, further back than any period of the model
ZeroTime == 0 - 1000

\* common.Hash{} : the all-zero hash
ZeroHash == 0

\* uint64 subtraction hdr.num-1: at 0 it wraps to 2^64-1, a height no
\* provider of the model serves (written -1 here; 2^64 exceeds TLC's integers)
Pred(num) == IF num = 0 THEN 0 - 1 ELSE num - 1

---------------------------------------------------------------------------
(* The provider: headers of chain f.  A block's hash determines the block. *)

HashOf(h, f) == h * NumForks + f

Header(h, f) ==
    [num |-> h, hash |-> HashOf(h, f),
     pHash |-> IF h = 0 THEN ZeroHash ELSE HashOf(h - 1, f)]

AllHashes == {HashOf(h, f) : h \in Heights, f \in Forks}

---------------------------------------------------------------------------
(* Header fetching.  A fetch works on the node-local record                *)
(*   w = [cache, db, clock, waits, reorgs, rpcs, takes, deleted, events]    *)
(* where cache is the node's chainHistory, clock the wall clock, waits the *)
(* delays one throttle.Take() can impose, and the other fields log what    *)
(* the call did: rpcs is the sequence of header requests issued, takes the *)
(* number of throttle.Take() calls, deleted the heights wiped from cache,  *)
(* events the order in which Take() calls and RPC requests happened.       *)
(* Each operator yields the SET of results the provider can produce.       *)

\* ratelimit.NewUnlimited() never blocks; ratelimit.New(rate) blocks the
\* caller for up to one pacing interval
Waits(limiter) == IF limiter = "unlimited" THEN {0} ELSE 0..MaxWait

\* what HeaderByNumber(num) can answer when the provider may be on any chain
\* of prov: a failure (an error, or a nil header: both make
\* throttledGetHeader return nil and an error), or the header of a chain at
\* the height asked for (at any height, when the tip is asked for)
Answers(num, prov) ==
    {[kind |-> "failed"]} \cup
    {[kind |-> "header", h |-> Header(h, g)] :
        g \in prov, h \in IF num = Latest THEN Heights ELSE {num.at}}

dbAdd(blockdb, hash) ==
    IF blockdb = NoDb THEN blockdb ELSE [hashes |-> blockdb.hashes \cup {hash}]

Put(cache, bl) ==
    [k \in DOMAIN cache \cup {bl.num} |-> IF k = bl.num THEN bl ELSE cache[k]]

Delete(cache, num) == [k \in DOMAIN cache \ {num} |-> cache[k]]

EmptyCache == [k \in {} |-> Nil]

\* a JavaScript object without members
NoMembers == [k \in {} |-> 0]

Lookup(cache, num) == IF num \in DOMAIN cache THEN cache[num] ELSE Nil

\* variant: the fetched header is not entered into chainHistory
throttledGetHeader_noStore(w, num, prov) ==
    { IF a.kind = "header"
      THEN [w   |-> [w EXCEPT !.takes = @ + 1,
                              !.events = @ \o <<"take", "rpc">>,
                              !.clock = @ + d,
                              !.rpcs = Append(@, [num |-> num, ok |-> TRUE, h |-> a.h]),
                              !.db = dbAdd(@, a.h.hash)],
            bl  |-> a.h,
            err |-> FALSE]
      ELSE [w   |-> [w EXCEPT !.takes = @ + 1,
                              !.events = @ \o <<"take", "rpc">>,
                              !.clock = @ + d,
                              !.rpcs = Append(@, [num |-> num, ok |-> FALSE, h |-> Nil])],
            bl  |-> Nil,
            err |-> TRUE]
    : a \in Answers(num, prov), d \in w.waits }

\* variant: the request is sent without waiting for the rate limiter
throttledGetHeader_noTake(w, num, prov) ==
    { IF a.kind = "header"
      THEN [w   |-> [w EXCEPT !.events = @ \o <<"rpc">>,
                              !.rpcs = Append(@, [num |-> num, ok |-> TRUE, h |-> a.h]),
                              !.db = dbAdd(@, a.h.hash),
                              !.cache = Put(@, a.h)],
            bl  |-> a.h,
            err |-> FALSE]
      ELSE [w   |-> [w EXCEPT !.events = @ \o <<"rpc">>,
                              !.rpcs = Append(@, [num |-> num, ok |-> FALSE, h |-> Nil])],
            bl  |-> Nil,
            err |-> TRUE]
    : a \in Answers(num, prov), d \in w.waits }

throttledGetHeader(w, num, prov) ==
    { IF a.kind = "header"
      THEN [w   |-> [w EXCEPT !.takes = @ + 1,
                              !.events = @ \o <<"take", "rpc">>,
                              !.clock = @ + d,
                              !.rpcs = Append(@, [num |-> num, ok |-> TRUE, h |-> a.h]),
                              !.db = dbAdd(@, a.h.hash),
                              !.cache = Put(@, a.h)],
            bl  |-> a.h,
            err |-> FALSE]
      ELSE [w   |-> [w EXCEPT !.takes = @ + 1,
                              !.events = @ \o <<"take", "rpc">>,
                              !.clock = @ + d,
                              !.rpcs = Append(@, [num |-> num, ok |-> FALSE, h |-> Nil])],
            bl  |-> Nil,
            err |-> TRUE]
    : a \in Answers(num, prov), d \in w.waits }

\* the loop of fetchHeader: the set of final records w
RECURSIVE walk(_, _, _, _)

\* variant: the parent's hash compared with the child's own hash
walk_ownHash(w, current, parentInfo, prov) ==
    IF parentInfo = Nil THEN {w}
    ELSE IF parentInfo.hash = current.hash THEN {w}
    ELSE LET w1 == [w EXCEPT !.reorgs = @ + 1,
                             !.deleted = @ \cup {parentInfo.num},
                             !.cache = Delete(@, parentInfo.num)]
         IN  UNION { IF r.err THEN {r.w}
                     ELSE walk(r.w, r.bl, Lookup(r.w.cache, Pred(r.bl.num)), prov)
                   : r \in throttledGetHeader(w1, At(parentInfo.num), prov) }

\* variant: the stale parent is not wiped before it is re-fetched
walk_noDelete(w, current, parentInfo, prov) ==
    IF parentInfo = Nil THEN {w}
    ELSE IF parentInfo.hash = current.pHash THEN {w}
    ELSE LET w1 == [w EXCEPT !.reorgs = @ + 1]
         IN  UNION { IF r.err THEN {r.w}
                     ELSE walk(r.w, r.bl, Lookup(r.w.cache, Pred(r.bl.num)), prov)
                   : r \in throttledGetHeader(w1, At(parentInfo.num), prov) }

\* variant: the walk goes on below a parent that matches
walk_pastMatch(w, current, parentInfo, prov) ==
    IF parentInfo = Nil THEN {w}
    ELSE LET w1 == [w EXCEPT !.reorgs = @ + 1,
                             !.deleted = @ \cup {parentInfo.num},
                             !.cache = Delete(@, parentInfo.num)]
         IN  UNION { IF r.err THEN {r.w}
                     ELSE walk(r.w, r.bl, Lookup(r.w.cache, Pred(r.bl.num)), prov)
                   : r \in throttledGetHeader(w1, At(parentInfo.num), prov) }

\* variant: a parent whose re-fetch failed is put back
walk_restoreOnError(w, current, parentInfo, prov) ==
    IF parentInfo = Nil THEN {w}
    ELSE IF parentInfo.hash = current.pHash THEN {w}
    ELSE LET w1 == [w EXCEPT !.reorgs = @ + 1,
                             !.deleted = @ \cup {parentInfo.num},
                             !.cache = Delete(@, parentInfo.num)]
         IN  UNION { IF r.err THEN {[r.w EXCEPT !.cache = Put(@, parentInfo)]}
                     ELSE walk(r.w, r.bl, Lookup(r.w.cache, Pred(r.bl.num)), prov)
                   : r \in throttledGetHeader(w1, At(parentInfo.num), prov) }

walk(w, current, parentInfo, prov) ==
    IF parentInfo = Nil THEN {w}
    ELSE IF parentInfo.hash = current.pHash THEN {w}
    ELSE LET w1 == [w EXCEPT !.reorgs = @ + 1,
                             !.deleted = @ \cup {parentInfo.num},
                             !.cache = Delete(@, parentInfo.num)]
         IN  UNION { IF r.err THEN {r.w}
                     ELSE walk(r.w, r.bl, Lookup(r.w.cache, Pred(r.bl.num)), prov)
                   : r \in throttledGetHeader(w1, At(parentInfo.num), prov) }

\* variant: a failed first fetch is tried once more
fetchHeader_retry(w, num, prov) ==
    UNION { IF r.err THEN throttledGetHeader(r.w, num, prov)
            ELSE IF Pred(r.bl.num) \in DOMAIN r.w.cache
                 THEN {[w |-> x, bl |-> r.bl, err |-> FALSE] :
                         x \in walk(r.w, r.bl, r.w.cache[Pred(r.bl.num)], prov)}
                 ELSE {r}
          : r \in throttledGetHeader(w, num, prov) }

\* variant: a failed first fetch empties the cache
fetchHeader_wipeOnError(w, num, prov) ==
    UNION { IF r.err THEN {[r EXCEPT !.w.cache = EmptyCache]}
            ELSE IF Pred(r.bl.num) \in DOMAIN r.w.cache
                 THEN {[w |-> x, bl |-> r.bl, err |-> FALSE] :
                         x \in walk(r.w, r.bl, r.w.cache[Pred(r.bl.num)], prov)}
                 ELSE {r}
          : r \in throttledGetHeader(w, num, prov) }

fetchHeader(w, num, prov) ==
    UNION { IF r.err THEN {r}
            ELSE IF Pred(r.bl.num) \in DOMAIN r.w.cache
                 THEN {[w |-> x, bl |-> r.bl, err |-> FALSE] :
                         x \in walk(r.w, r.bl, r.w.cache[Pred(r.bl.num)], prov)}
                 ELSE {r}
          : r \in throttledGetHeader(w, num, prov) }

\* variant: the cache is not consulted
blockAt_noCache(w, lat, num, force, prov) ==
    IF lat # Nil /\ lat.num < num THEN {[w |-> w, bl |-> Nil]}
    ELSE {[w |-> r.w, bl |-> r.bl] : r \in fetchHeader(w, At(num), prov)}

\* variant: no check for a future block
blockAt_noFuture(w, lat, num, force, prov) ==
    IF ~force /\ num \in DOMAIN w.cache THEN {[w |-> w, bl |-> w.cache[num]]}
    ELSE {[w |-> r.w, bl |-> r.bl] : r \in fetchHeader(w, At(num), prov)}

\* BlockAt on node-local state: the set of [w, bl]
blockAt(w, lat, num, force, prov) ==
    IF lat # Nil /\ lat.num < num THEN {[w |-> w, bl |-> Nil]}
    ELSE IF ~force /\ num \in DOMAIN w.cache THEN {[w |-> w, bl |-> w.cache[num]]}
    ELSE {[w |-> r.w, bl |-> r.bl] : r \in fetchHeader(w, At(num), prov)}

NoReport == [Numbers |-> <<>>, Cols |-> <<>>, Rows |-> EmptyCache, Hashes |-> <<>>]

\* the record a call on node n starts from
Start(n) ==
    [cache |-> chainHistory[n], db |-> db,
     clock |-> now, waits |-> Waits(throttle[n]),
     reorgs |-> 0, rpcs |-> <<>>, takes |-> 0, deleted |-> {},
     events |-> <<>>]

\* what an operation leaves for its caller and in the logs
NoOut ==
    [op |-> "none", node |-> "none", num |-> Latest, force |-> FALSE,
     bl |-> Nil, err |-> FALSE, reorgs |-> 0, rpcs |-> <<>>, takes |-> 0,
     deleted |-> {}, ver |-> "", vcalls |-> 0, callAt |-> ZeroTime,
     prevCall |-> ZeroTime, numbers |-> <<>>, cells |-> <<>>,
     rebuilt |-> FALSE, hash |-> ZeroHash, status |-> NodeStatusOK,
     marks |-> <<>>, events |-> <<>>, found |-> FALSE, got |-> <<>>]

Logged(o, w) ==
    [o EXCEPT !.reorgs = w.reorgs, !.rpcs = w.rpcs, !.takes = w.takes,
              !.deleted = w.deleted, !.events = w.events]

\* the chains the provider of node n may answer from: any (it may have
\* reorganised), or only the one it is on
AnyChain(n) == Forks
SameChain(n) == {canon[n]}

---------------------------------------------------------------------------
(* Node operations *)

\* variant: one chainHistory shared by all nodes
Stored_sharedHistory(n, w) ==
    /\ chainHistory' = [m \in Nodes |-> w.cache]
    /\ db' = w.db
    /\ now' = w.clock

Stored(n, w) ==
    /\ chainHistory' = [chainHistory EXCEPT ![n] = w.cache]
    /\ db' = w.db
    /\ now' = w.clock

SetStatus(n, s) ==
    /\ status' = [status EXCEPT ![n] = s]
    /\ out' = [NoOut EXCEPT !.op = "SetStatus", !.node = n, !.status = s]
    /\ UNCHANGED <<canon, miniFIFO, chainHistory, latest, lastProgress, headGauge,
                   version, lastCheck, db, throttle, lastVersionCall, now, report>>

Status(n) ==
    /\ out' = [NoOut EXCEPT !.op = "Status", !.node = n, !.status = status[n]]
    /\ UNCHANGED <<canon, miniFIFO, chainHistory, latest, lastProgress, headGauge, version,
                   status, lastCheck, db, throttle, lastVersionCall, now, report>>

\* what web3_clientVersion can answer
Versions == {"v1"}
VersionAnswers == {[ok |-> FALSE, ver |-> ""]} \cup {[ok |-> TRUE, ver |-> v] : v \in Versions}

\* Version() on the node-local record nv = [version, lastCheck,
\* lastVersionCall] at time clock: the set of results
versionCall(nv, clock, waits) ==
    IF clock - nv.lastCheck < VersionPeriod
    THEN {[nv |-> nv, clock |-> clock, ver |-> nv.version, err |-> FALSE,
           takes |-> 0, vcalls |-> 0, callAt |-> ZeroTime, prevCall |-> ZeroTime,
           events |-> <<>>]}
    ELSE {[nv |-> [version |-> IF a.ok THEN a.ver ELSE nv.version,
                   lastCheck |-> clock,
                   lastVersionCall |-> clock + d],
           clock |-> clock + d, ver |-> a.ver, err |-> ~a.ok,
           takes |-> 1, vcalls |-> 1, callAt |-> clock + d,
           prevCall |-> nv.lastVersionCall, events |-> <<"take", "rpc">>]
          : a \in VersionAnswers, d \in waits}

VersionState(n) ==
    [version |-> version[n], lastCheck |-> lastCheck[n],
     lastVersionCall |-> lastVersionCall[n]]

VersionStored(n, nv) ==
    /\ version' = [version EXCEPT ![n] = nv.version]
    /\ lastCheck' = [lastCheck EXCEPT ![n] = nv.lastCheck]
    /\ lastVersionCall' = [lastVersionCall EXCEPT ![n] = nv.lastVersionCall]

VersionLogged(o, v) ==
    [o EXCEPT !.ver = v.ver, !.err = v.err, !.takes = v.takes,
              !.vcalls = v.vcalls, !.callAt = v.callAt, !.prevCall = v.prevCall,
              !.events = v.events]

Version(n) ==
    \E v \in versionCall(VersionState(n), now, Waits(throttle[n])) :
        /\ v.clock <= MaxClock
        /\ VersionStored(n, v.nv)
        /\ now' = v.clock
        /\ out' = VersionLogged([NoOut EXCEPT !.op = "Version", !.node = n], v)
        /\ UNCHANGED <<canon, miniFIFO, chainHistory, latest, lastProgress, headGauge,
                       status, db, throttle, report>>

\* variant: progress judged by the block number
progressed_byNum(lat, bl) == lat = Nil \/ lat.num # bl.num

\* the test of UpdateLatest for a new head
progressed(lat, bl) == lat = Nil \/ lat.hash # bl.hash

\* variant: a failed fetch marks the node unreachable
UpdateLatest_marksUnreachable(n, prov) ==
    \E r \in fetchHeader(Start(n), Latest, prov) :
        /\ r.w.clock <= MaxClock
        /\ Stored(n, r.w)
        /\ out' = Logged([NoOut EXCEPT !.op = "UpdateLatest", !.node = n,
                                       !.bl = r.bl, !.err = r.err], r.w)
        /\ IF ~r.err /\ progressed(latest[n], r.bl)
           THEN /\ lastProgress' = [lastProgress EXCEPT ![n] = r.w.clock]
                /\ latest' = [latest EXCEPT ![n] = r.bl]
                /\ headGauge' = [headGauge EXCEPT ![n] = r.bl.num]
           ELSE UNCHANGED <<lastProgress, latest, headGauge>>
        /\ status' = IF r.err THEN [status EXCEPT ![n] = NodeStatusUnreachable]
                      ELSE status
        /\ UNCHANGED <<canon, miniFIFO, version, lastCheck, throttle,
                       lastVersionCall, report>>

UpdateLatest(n, prov) ==
    \E r \in fetchHeader(Start(n), Latest, prov) :
        /\ r.w.clock <= MaxClock
        /\ Stored(n, r.w)
        /\ out' = Logged([NoOut EXCEPT !.op = "UpdateLatest", !.node = n,
                                       !.bl = r.bl, !.err = r.err], r.w)
        /\ IF ~r.err /\ progressed(latest[n], r.bl)
           THEN /\ lastProgress' = [lastProgress EXCEPT ![n] = r.w.clock]
                /\ latest' = [latest EXCEPT ![n] = r.bl]
                /\ headGauge' = [headGauge EXCEPT ![n] = r.bl.num]
           ELSE UNCHANGED <<lastProgress, latest, headGauge>>
        /\ UNCHANGED <<canon, miniFIFO, version, status, lastCheck, throttle,
                       lastVersionCall, report>>

BlockAt(n, num, force, prov) ==
    \E r \in blockAt(Start(n), latest[n], num, force, prov) :
        /\ r.w.clock <= MaxClock
        /\ Stored(n, r.w)
        /\ out' = Logged([NoOut EXCEPT !.op = "BlockAt", !.node = n, !.num = At(num),
                                       !.force = force, !.bl = r.bl], r.w)
        /\ UNCHANGED <<canon, miniFIFO, latest, lastProgress, headGauge, version, status,
                       lastCheck, throttle, lastVersionCall, report>>

HashAt(n, num, force, prov) ==
    \E r \in blockAt(Start(n), latest[n], num, force, prov) :
        /\ r.w.clock <= MaxClock
        /\ Stored(n, r.w)
        /\ out' = Logged([NoOut EXCEPT !.op = "HashAt", !.node = n, !.num = At(num),
                                       !.force = force, !.bl = r.bl,
                                       !.hash = IF r.bl # Nil THEN r.bl.hash
                                                ELSE ZeroHash], r.w)
        /\ UNCHANGED <<canon, miniFIFO, latest, lastProgress, headGauge, version, status,
                       lastCheck, throttle, lastVersionCall, report>>

---------------------------------------------------------------------------
(* Reports *)

HexDigits == <<"0", "1", "2", "3", "4", "5", "6", "7",
               "8", "9", "a", "b", "c", "d", "e", "f">>

\* fmt.Sprintf("0x%x", hash): "0x" and two hex digits per byte of the hash
\* (hashes of the model are one byte wide); strings are sequences of characters
Sprintf0x(hash) ==
    <<"0", "x", HexDigits[((hash \div 16) % 16) + 1], HexDigits[(hash % 16) + 1]>>

\* the cell text "" (cells are sequences of characters)
EmptyString == <<>>

Range(seq) == {seq[i] : i \in DOMAIN seq}

RECURSIVE Orders(_)
Orders(S) ==
    IF S = {} THEN {<<>>}
    ELSE UNION {{<<x>> \o p : p \in Orders(S \ {x})} : x \in S}

\* variant: the list is returned as it is
dedup_keepAll(hashes) == {hashes}

\* Report.dedup: the distinct hashes, in the order a map iteration yields
dedup(hashes) == Orders(Range(hashes))

NewReport(headList) ==
    /\ report = NoReport
    /\ report' = [Numbers |-> headList, Cols |-> <<>>, Rows |-> EmptyCache,
                  Hashes |-> <<>>]
    /\ out' = [NoOut EXCEPT !.op = "NewReport", !.numbers = headList]
    /\ UNCHANGED <<canon, miniFIFO, chainHistory, latest, lastProgress, headGauge, version,
                   status, lastCheck, db, throttle, lastVersionCall, now>>

\* the loop of AddToReport from index i on, on acc = [w, rep, cells]; cells
\* logs for each number the block BlockAt returned and whether its fetch failed
RECURSIVE addRows(_, _, _, _)

\* variant: the loop ends at the first number BlockAt has no block for
addRows_stopAtNil(acc, i, lat, prov) ==
    IF i > Len(acc.rep.Numbers) THEN {acc}
    ELSE LET num == acc.rep.Numbers[i]
             row == IF num \in DOMAIN acc.rep.Rows THEN acc.rep.Rows[num] ELSE <<>>
             sent == Len(acc.w.rpcs)
         IN  UNION { IF r.bl = Nil THEN {[acc EXCEPT !.w = r.w]}
                     ELSE addRows(
                 [w |-> r.w,
                  rep |-> [acc.rep EXCEPT
                      !.Hashes = Append(@, r.bl.hash),
                      !.Rows = [k \in DOMAIN @ \cup {num} |->
                                  IF k = num
                                  THEN Append(row, Sprintf0x(r.bl.hash))
                                  ELSE @[k]]],
                  cells |-> Append(acc.cells,
                      [num |-> num, bl |-> r.bl, failed |-> FALSE])],
                 i + 1, lat, prov)
               : r \in blockAt(acc.w, lat, num, FALSE, prov) }

addRows(acc, i, lat, prov) ==
    IF i > Len(acc.rep.Numbers) THEN {acc}
    ELSE LET num == acc.rep.Numbers[i]
             row == IF num \in DOMAIN acc.rep.Rows THEN acc.rep.Rows[num] ELSE <<>>
             sent == Len(acc.w.rpcs)
         IN  UNION { addRows(
                 [w |-> r.w,
                  rep |-> [acc.rep EXCEPT
                      !.Hashes = IF r.bl # Nil THEN Append(@, r.bl.hash) ELSE @,
                      !.Rows = [k \in DOMAIN @ \cup {num} |->
                                  IF k = num
                                  THEN Append(row, IF r.bl # Nil
                                                   THEN Sprintf0x(r.bl.hash)
                                                   ELSE EmptyString)
                                  ELSE @[k]]],
                  cells |-> Append(acc.cells,
                      [num |-> num, bl |-> r.bl,
                       failed |-> Len(r.w.rpcs) > sent /\ ~r.w.rpcs[sent + 1].ok])],
                 i + 1, lat, prov)
               : r \in blockAt(acc.w, lat, num, FALSE, prov) }

\* AddToReport of node n on report rep, Version() having returned v: the set
\* of [w, rep, cells]
addToReport(rep, n, v, prov) ==
    LET col == [Version |-> v.ver, Name |-> n, Status |-> status[n],
                LastProgress |-> lastProgress[n]]
        rep1 == [rep EXCEPT !.Cols = Append(@, col)]
        w0 == [Start(n) EXCEPT !.clock = v.clock]
    IN  UNION { {[a EXCEPT !.rep.Hashes = hl] : hl \in dedup(a.rep.Hashes)}
              : a \in addRows([w |-> w0, rep |-> rep1, cells |-> <<>>], 1,
                              latest[n], prov) }

AddToReport(n, prov) ==
    /\ Len(report.Cols) < MaxCols
    /\ \E v \in versionCall(VersionState(n), now, Waits(throttle[n])) :
       \E a \in addToReport(report, n, v, prov) :
        /\ a.w.clock <= MaxClock
        /\ VersionStored(n, v.nv)
        /\ Stored(n, a.w)
        /\ report' = a.rep
        /\ out' = [VersionLogged(Logged([NoOut EXCEPT !.op = "AddToReport",
                                                     !.node = n,
                                                     !.numbers = report.Numbers,
                                                     !.cells = a.cells], a.w), v)
                       EXCEPT !.takes = v.takes + a.w.takes,
                              !.events = v.events \o a.w.events]
        /\ UNCHANGED <<canon, miniFIFO, latest, lastProgress, headGauge, status, throttle>>

\* a report built for one node: NewReport(headList) followed at once by
\* AddToReport(n); rebuilt tells that the step before built the same report
BuildReport(n, headList, prov) ==
    \E v \in versionCall(VersionState(n), now, Waits(throttle[n])) :
    \E a \in addToReport([NoReport EXCEPT !.Numbers = headList], n, v, prov) :
        /\ a.w.clock <= MaxClock
        /\ VersionStored(n, v.nv)
        /\ Stored(n, a.w)
        /\ report' = a.rep
        /\ out' = [VersionLogged(Logged([NoOut EXCEPT !.op = "BuildReport",
                                                     !.node = n,
                                                     !.numbers = headList,
                                                     !.cells = a.cells], a.w), v)
                       EXCEPT !.takes = v.takes + a.w.takes,
                              !.events = v.events \o a.w.events,
                              !.rebuilt = /\ out.op = "BuildReport"
                                          /\ out.node = n
                                          /\ out.numbers = headList]
        /\ UNCHANGED <<canon, miniFIFO, latest, lastProgress, headGauge, status, throttle>>

Tick(d, limit) ==
    /\ now + d <= limit
    /\ now' = now + d
    /\ out' = [NoOut EXCEPT !.op = "Tick"]
    /\ UNCHANGED <<canon, miniFIFO, chainHistory, latest, lastProgress, headGauge, version,
                   status, lastCheck, db, throttle, lastVersionCall, report>>

---------------------------------------------------------------------------
(* The dashboard (www/script.js) *)

\* the text "fail" that onData keeps in rowData once two cells differed
Fail == <<"f", "a", "i", "l">>

\* the forEach over the cells of one row, on the locals count and rowData
RECURSIVE scanRow(_, _, _)
scanRow(row, count, rowData) ==
    IF row = <<>> THEN [count |-> count, rowData |-> rowData]
    ELSE LET data == Head(row)
         IN  IF Len(data) = 0 THEN scanRow(Tail(row), count, rowData)
             ELSE scanRow(Tail(row), count + 1,
                          IF rowData = EmptyString THEN data
                          ELSE IF rowData # data THEN Fail
                          ELSE rowData)

\* variant: a row is marked as soon as one cell is filled
rowClass_fromOne(row) ==
    LET r == scanRow(row, 0, EmptyString)
    IN  IF r.count > 0
        THEN (IF r.rowData = Fail THEN "danger" ELSE "success")
        ELSE "none"

\* the class onData gives the <tr> of a row
rowClass(row) ==
    LET r == scanRow(row, 0, EmptyString)
    IN  IF r.count > 1
        THEN (IF r.rowData = Fail THEN "danger" ELSE "success")
        ELSE "none"

\* the cells a Report can hold in the row of number num (no text, or the
\* hash of a block of that height), and the reports of one number the
\* server can send: any row of up to MaxCols such cells
CellTexts(num) == {EmptyString} \cup {Sprintf0x(HashOf(num, f)) : f \in Forks}
RowTexts(num) == UNION {[1..k -> CellTexts(num)] : k \in 0..MaxCols}
DataSets ==
    {[Numbers |-> <<d.num>>,
      Cols |-> [i \in 1..Len(d.row) |->
                  [Version |-> "n/a", Name |-> "n1", Status |-> NodeStatusOK,
                   LastProgress |-> 0]],
      Rows |-> [k \in {d.num} |-> d.row],
      Hashes |-> <<>>]
     : d \in UNION {{[num |-> num, row |-> row] : row \in RowTexts(num)}
                    : num \in Heights}}

\* the page receives a report
Receive(data) ==
    /\ report' = data
    /\ out' = [NoOut EXCEPT !.op = "Receive"]
    /\ UNCHANGED <<canon, miniFIFO, chainHistory, latest, lastProgress, headGauge, version,
                   status, lastCheck, db, throttle, lastVersionCall, now>>

\* onData: the rows are drawn, marks logs the class of each
onData ==
    /\ out' = [NoOut EXCEPT !.op = "onData",
                            !.numbers = report.Numbers,
                            !.marks = [i \in DOMAIN report.Numbers |->
                                         rowClass(report.Rows[report.Numbers[i]])]]
    /\ UNCHANGED <<canon, miniFIFO, chainHistory, latest, lastProgress, headGauge, version,
                   status, lastCheck, db, throttle, lastVersionCall, now, report>>

\* miniFIFO.  Member names are numbers: a hash is 1, 2, ..., and the member
\* "hash" that every block object has is HashMember, which is no hash.
FifoLimit == 100
HashMember == 0

\* the object the server sends for a hash
BlockJson(hash) == [k \in {HashMember} |-> hash]

\* delete obj[name]
deleteMember(obj, name) == [k \in DOMAIN obj \ {name} |-> obj[k]]

\* obj[name] = value
setMember(obj, name, value) ==
    [k \in DOMAIN obj \cup {name} |-> IF k = name THEN value ELSE obj[k]]

\* miniFIFO.store(hash, data): the stored object is the argument itself, so
\* the delete at the end, which names the argument, acts on it
store(hash, data) ==
    /\ IF hash \in DOMAIN miniFIFO.data
       THEN UNCHANGED miniFIFO
       ELSE IF Len(miniFIFO.fifo) + 1 > FifoLimit
            THEN LET first == Head(miniFIFO.fifo)
                 IN  miniFIFO' =
                       [data |-> setMember(miniFIFO.data, hash,
                                           deleteMember(data, first)),
                        fifo |-> Tail(Append(miniFIFO.fifo, hash))]
            ELSE miniFIFO' = [data |-> setMember(miniFIFO.data, hash, data),
                              fifo |-> Append(miniFIFO.fifo, hash)]
    /\ out' = [NoOut EXCEPT !.op = "store", !.hash = hash]
    /\ UNCHANGED <<canon, chainHistory, latest, lastProgress, headGauge, version,
                   status, lastCheck, db, throttle, lastVersionCall, now, report>>

\* miniFIFO.get(hash): got is empty for undefined
get(hash) ==
    /\ out' = [NoOut EXCEPT !.op = "get", !.hash = hash,
                            !.got = IF hash \in DOMAIN miniFIFO.data
                                    THEN <<miniFIFO.data[hash]>> ELSE <<>>]
    /\ UNCHANGED <<canon, miniFIFO, chainHistory, latest, lastProgress, headGauge,
                   version, status, lastCheck, db, throttle, lastVersionCall,
                   now, report>>

\* miniFIFO.has(hash)
has(hash) ==
    /\ out' = [NoOut EXCEPT !.op = "has", !.hash = hash,
                            !.found = hash \in DOMAIN miniFIFO.data]
    /\ UNCHANGED <<canon, miniFIFO, chainHistory, latest, lastProgress, headGauge,
                   version, status, lastCheck, db, throttle, lastVersionCall,
                   now, report>>

---------------------------------------------------------------------------
(* Specifications *)

\* the state NewRPCNode leaves, for a limiter and a store chosen at construction
Constructed(limiter, blockdb) ==
    /\ chainHistory = [n \in Nodes |-> EmptyCache]
    /\ latest = [n \in Nodes |-> Nil]
    /\ lastProgress = [n \in Nodes |-> 0]
    /\ headGauge = [n \in Nodes |-> 0]
    /\ version = [n \in Nodes |-> "n/a"]
    /\ status = [n \in Nodes |-> NodeStatusOK]
    /\ lastCheck = [n \in Nodes |-> ZeroTime]
    /\ db = blockdb
    /\ throttle = [n \in Nodes |-> limiter]
    /\ lastVersionCall = [n \in Nodes |-> ZeroTime]
    /\ now = 1
    /\ report = NoReport
    /\ miniFIFO = [data |-> NoMembers, fifo |-> <<>>]
    /\ out = NoOut

\* Spec: one node tracking a provider that may reorganise at any time
Init ==
    /\ Constructed("unlimited", NoDb)
    /\ canon = [n \in Nodes |-> 1]

Next ==
    \/ UpdateLatest("n1", AnyChain("n1"))
    \/ \E num \in Heights, force \in BOOLEAN : BlockAt("n1", num, force, AnyChain("n1"))

Spec == Init /\ [][Next]_vars

\* SpecStable: one node tracking a provider that never reorganises: every
\* header it returns lies on the one chain canon[n]
InitStable ==
    /\ Constructed("unlimited", NoDb)
    /\ canon \in [Nodes -> Forks]

NextStable ==
    \/ UpdateLatest("n1", SameChain("n1"))
    \/ \E num \in Heights, force \in BOOLEAN : BlockAt("n1", num, force, SameChain("n1"))

SpecStable == InitStable /\ [][NextStable]_vars

\* SpecClock: one node polled for its head while time passes
InitClock ==
    /\ Constructed("unlimited", NoDb)
    /\ canon = [n \in Nodes |-> 1]

NextClock ==
    \/ UpdateLatest("n1", AnyChain("n1"))
    \/ Tick(1, MaxTime)

SpecClock == InitClock /\ [][NextClock]_vars

\* SpecVersion: one node behind a rate limiter asked for its version while
\* time passes
InitVersion ==
    /\ Constructed("limited", NoDb)
    /\ canon = [n \in Nodes |-> 1]

NextVersion ==
    \/ Version("n1")
    \/ Tick(1, MaxClock)

SpecVersion == InitVersion /\ [][NextVersion]_vars

\* SpecReport: one Report from its construction on, filled from two nodes
\* whose providers may fail and may reorganise
HeadLists == UNION {[1..k -> Heights] : k \in 0..MaxNumbers}

InitReport ==
    /\ Constructed("unlimited", NoDb)
    /\ canon = [n \in Nodes |-> 1]

NextReport ==
    \/ \E headList \in HeadLists : NewReport(headList)
    \/ \E n \in Nodes : AddToReport(n, AnyChain(n))

SpecReport == InitReport /\ [][NextReport]_vars

\* SpecBuild: one node polled for its head and reported on again and again,
\* its provider free to fail and to reorganise
InitBuild ==
    /\ Constructed("unlimited", NoDb)
    /\ canon = [n \in Nodes |-> 1]

NextBuild ==
    \/ UpdateLatest("n1", AnyChain("n1"))
    \/ \E headList \in HeadLists : BuildReport("n1", headList, AnyChain("n1"))

SpecBuild == InitBuild /\ [][NextBuild]_vars

\* SpecStatus: a caller that sets and reads the status of two nodes while
\* one of them is polled, queried and reported on, its provider on one
\* chain and free to fail (HashAt is BlockAt and a look at the result)
Statuses == {NodeStatusOK, NodeStatusUnreachable}
ShortLists == {hl \in HeadLists : Len(hl) <= 1}

InitStatus ==
    /\ Constructed("unlimited", NoDb)
    /\ canon = [n \in Nodes |-> 1]

NextStatus ==
    \/ \E n \in Nodes, s \in Statuses : SetStatus(n, s)
    \/ \E n \in Nodes : Status(n)
    \/ UpdateLatest("n1", SameChain("n1"))
    \/ \E num \in Heights, force \in BOOLEAN : HashAt("n1", num, force, SameChain("n1"))
    \/ Version("n1")
    \/ \E headList \in ShortLists : BuildReport("n1", headList, SameChain("n1"))

SpecStatus == InitStatus /\ [][NextStatus]_vars

\* SpecNodes: two nodes, each behind its own provider, sharing one store
\* and polled and queried in any interleaving
EmptyDb == [hashes |-> {}]

InitNodes ==
    /\ Constructed("unlimited", EmptyDb)
    /\ canon = [n \in Nodes |-> IF n = "n1" THEN 1 ELSE NumForks]

NextNodes ==
    \/ \E n \in Nodes : UpdateLatest(n, SameChain(n))
    \/ \E n \in Nodes, num \in Heights, force \in BOOLEAN :
          BlockAt(n, num, force, SameChain(n))
    \/ \E n \in Nodes : Version(n)

SpecNodes == InitNodes /\ [][NextNodes]_vars

\* SpecDashboard: the page drawing the reports it receives
InitDashboard ==
    /\ Constructed("unlimited", NoDb)
    /\ canon = [n \in Nodes |-> 1]

NextDashboard ==
    \/ \E data \in DataSets : Receive(data)
    \/ onData

SpecDashboard == InitDashboard /\ [][NextDashboard]_vars

\* SpecFifo: blocks shown one after the other; the hashes are numbered in
\* the order they are first stored, and a hash may be stored again
MaxStores == 102

NextHash == Cardinality(DOMAIN miniFIFO.data) + 1

InitFifo ==
    /\ Constructed("unlimited", NoDb)
    /\ canon = [n \in Nodes |-> 1]

\* the hashes asked about: the first stored, the last stored, a new one
Shown == {1, NextHash - 1, NextHash} \cap (1..MaxStores)

NextFifo ==
    \/ \E hash \in Shown : store(hash, BlockJson(hash))
    \/ \E hash \in Shown : get(hash)
    \/ \E hash \in Shown : has(hash)

SpecFifo == InitFifo /\ [][NextFifo]_vars

---------------------------------------------------------------------------
(* Properties *)

IsFetchOp(o) == o.op \in {"UpdateLatest", "BlockAt"}

\* the heights whose header a call obtained from the provider
FetchedHeights(o) == {o.rpcs[i].h.num : i \in {j \in DOMAIN o.rpcs : o.rpcs[j].ok}}

\* C1: against a provider whose headers always form one consistent
\* parent-hash chain, every fetchHeader call counts 0 reorgs and deletes no
\* cache entry, the entries already cached stay as they are, and the cache
\* holds an entry for exactly the heights fetched so far: a call adds the
\* heights it fetched and nothing else.
C1_ConsistentChainNoReorg ==
    [][IsFetchOp(out') =>
         /\ out'.reorgs = 0
         /\ out'.deleted = {}
         /\ DOMAIN chainHistory'["n1"] =
                DOMAIN chainHistory["n1"] \cup FetchedHeights(out')
         /\ \A k \in DOMAIN chainHistory["n1"] :
                chainHistory'["n1"][k] = chainHistory["n1"][k]
         /\ \A k \in DOMAIN chainHistory'["n1"] :
                chainHistory'["n1"][k] = Header(k, canon["n1"])]_vars

\* C1 witness: a fetch whose parent height was cached, so that the ancestry
\* check ran, with three heights in the cache
C1_Witness ==
    /\ IsFetchOp(out)
    /\ out.rpcs # <<>>
    /\ ~out.err
    /\ out.bl # Nil
    /\ out.bl.num > 0
    /\ DOMAIN chainHistory["n1"] = Heights
    /\ out.reorgs = 0

\* a step in which a header fetched for height H (first request of the call)
\* names a parent other than the block cached at H-1
MismatchAtParent(ch, o) ==
    /\ IsFetchOp(o)
    /\ o.rpcs # <<>>
    /\ o.rpcs[1].ok
    /\ Pred(o.rpcs[1].h.num) \in DOMAIN ch
    /\ ch[Pred(o.rpcs[1].h.num)].hash # o.rpcs[1].h.pHash

\* C2 as stated: on such a mismatch the walk counts at least one reorg,
\* re-fetches H-1, and when fetchHeader returns the hash stored at H-1 equals
\* the parent hash of the header stored at H.
C2_ParentHealedOnReturn ==
    [][MismatchAtParent(chainHistory["n1"], out') =>
         LET H == out'.rpcs[1].h.num
             ch == chainHistory'["n1"]
         IN  /\ out'.reorgs >= 1
             /\ Len(out'.rpcs) >= 2
             /\ out'.rpcs[2].num = At(H - 1)
             /\ H - 1 \in DOMAIN ch
             /\ ch[H - 1].hash = ch[H].pHash]_vars

\* C2 amended: on such a mismatch the walk counts at least one reorg and
\* its second request re-fetches H-1; when fetchHeader returns, H holds the
\* fetched header and H-1 holds what the re-fetch returned, or nothing if
\* the re-fetch failed; so the hash stored at H-1 equals the parent hash
\* stored at H exactly when the re-fetch was answered with that parent.
C2_ParentRefetchedOnce ==
    [][MismatchAtParent(chainHistory["n1"], out') =>
         LET H == out'.rpcs[1].h.num
             ch == chainHistory'["n1"]
             again == out'.rpcs[2]
         IN  /\ out'.reorgs >= 1
             /\ H - 1 \in out'.deleted
             /\ Len(out'.rpcs) >= 2
             /\ again.num = At(H - 1)
             /\ \A i \in 3..Len(out'.rpcs) : out'.rpcs[i].num # At(H - 1)
             /\ ch[H] = out'.rpcs[1].h
             /\ IF again.ok
                THEN H - 1 \in DOMAIN ch /\ ch[H - 1] = again.h
                ELSE H - 1 \notin DOMAIN ch
             /\ (H - 1 \in DOMAIN ch /\ ch[H - 1].hash = ch[H].pHash)
                  <=> (again.ok /\ again.h.hash = out'.rpcs[1].h.pHash)]_vars

\* C2 witness: a walk that replaced two stale ancestors and left H-1 linked
\* to H
C2_Witness ==
    /\ IsFetchOp(out)
    /\ out.reorgs >= 2
    /\ Len(out.rpcs) >= 3
    /\ out.rpcs[1].ok /\ out.rpcs[2].ok /\ out.rpcs[3].ok
    /\ LET H == out.rpcs[1].h.num
       IN  /\ H - 1 \in DOMAIN chainHistory["n1"]
           /\ chainHistory["n1"][H - 1].hash = chainHistory["n1"][H].pHash

\* BlockAt was asked for a height above the confirmed latest
IsFuture(lat, num) == lat # Nil /\ lat.num < num

\* C3: BlockAt(height, false) on a cached height issues no request (and
\* takes no token), leaves chainHistory as it is and, unless the height is
\* above latest.num, returns the cached entry.
C3_CachedBlockAtIsLocal ==
    [][(/\ out'.op = "BlockAt"
        /\ ~out'.force
        /\ out'.num.at \in DOMAIN chainHistory["n1"]) =>
         /\ out'.rpcs = <<>>
         /\ out'.takes = 0
         /\ chainHistory' = chainHistory
         /\ ~IsFuture(latest["n1"], out'.num.at) =>
                out'.bl = chainHistory["n1"][out'.num.at]]_vars

\* C3 witness: an unforced BlockAt answered from the cache
C3_Witness ==
    /\ out.op = "BlockAt"
    /\ ~out.force
    /\ out.rpcs = <<>>
    /\ out.bl # Nil
    /\ out.bl = chainHistory["n1"][out.num.at]
    /\ latest["n1"] # Nil

\* C4: with latest set, BlockAt of a height above latest.num returns nil,
\* forced or not, cached or not, without a request and without touching
\* chainHistory.
C4_FutureBlockIsNil ==
    [][(/\ out'.op = "BlockAt"
        /\ IsFuture(latest["n1"], out'.num.at)) =>
         /\ out'.bl = Nil
         /\ out'.rpcs = <<>>
         /\ out'.takes = 0
         /\ chainHistory' = chainHistory]_vars

\* C4 witness: a forced BlockAt of a cached height above latest.num
C4_Witness ==
    /\ out.op = "BlockAt"
    /\ out.force
    /\ IsFuture(latest["n1"], out.num.at)
    /\ out.num.at \in DOMAIN chainHistory["n1"]
    /\ out.bl = Nil

\* C5 as stated: two web3_clientVersion requests of a node are never issued
\* less than 30 seconds apart.
C5_VersionCallsSpaced ==
    (out.op = "Version" /\ out.vcalls = 1 /\ out.prevCall # ZeroTime)
        => out.callAt - out.prevCall >= VersionPeriod

\* C6 as stated: a Version() whose request fails returns the last-known
\* version together with the error.
C6_FailedVersionReturnsCached ==
    (out.op = "Version" /\ out.err) => out.ver = version["n1"]

\* C9: UpdateLatest replaces latest, stamps lastProgress with the current
\* time and sets the gauge to the new number exactly when the fetch
\* succeeded and there was no latest or its hash differs from the fetched
\* head's; otherwise all three stay as they were.
C9_ProgressIffNewHash ==
    [][out'.op = "UpdateLatest" =>
         IF ~out'.err /\ (latest["n1"] = Nil \/ latest["n1"].hash # out'.bl.hash)
         THEN /\ latest'["n1"] = out'.bl
              /\ lastProgress'["n1"] = now'
              /\ headGauge'["n1"] = out'.bl.num
         ELSE /\ latest' = latest
              /\ lastProgress' = lastProgress
              /\ headGauge' = headGauge]_vars

\* C9 witness: a head seen again after the clock moved on: latest is the
\* fetched head and lastProgress is older than the clock
C9_Witness ==
    /\ out.op = "UpdateLatest"
    /\ ~out.err
    /\ latest["n1"] = out.bl
    /\ lastProgress["n1"] > 0
    /\ lastProgress["n1"] < now
    /\ headGauge["n1"] = out.bl.num

NoDuplicates(seq) == \A i, j \in DOMAIN seq : i # j => seq[i] # seq[j]

Cells(rep) == UNION {Range(rep.Rows[k]) : k \in DOMAIN rep.Rows}

\* C7: whatever AddToReport calls a Report has seen, Hashes holds no hash
\* twice and holds exactly the hashes whose text is a non-empty cell of Rows.
C7_HashesAreTheDistinctCells ==
    /\ NoDuplicates(report.Hashes)
    /\ {Sprintf0x(h) : h \in Range(report.Hashes)} = Cells(report) \ {EmptyString}

\* C7 witness: three columns, a row where two of them report one hash and
\* the third another, and exactly two hashes in Hashes
C7_Witness ==
    /\ Len(report.Cols) = 3
    /\ \E k \in DOMAIN report.Rows :
         /\ Len(report.Rows[k]) = 3
         /\ EmptyString \notin Range(report.Rows[k])
         /\ Cardinality(Range(report.Rows[k])) = 2
    /\ Len(report.Hashes) = 2

\* the cells one AddToReport wrote for number num, in the order of Numbers
RECURSIVE CellsFor(_, _)
CellsFor(cells, num) ==
    IF cells = <<>> THEN <<>>
    ELSE (IF Head(cells).num = num
          THEN <<IF Head(cells).bl = Nil THEN EmptyString
                 ELSE Sprintf0x(Head(cells).bl.hash)>>
          ELSE <<>>) \o CellsFor(Tail(cells), num)

RowOf(rep, num) == IF num \in DOMAIN rep.Rows THEN rep.Rows[num] ELSE <<>>

\* C10: a fetch that fails inside BlockAt yields no block, and AddToReport
\* still visits every number of the list in order: the cell of a failed
\* number is empty, every other number gets its cell, and the cells written
\* for the nodes added before stay in place.
C10_FailedHeightLeavesEmptyCell ==
    [][out'.op = "AddToReport" =>
         /\ Len(out'.cells) = Len(report.Numbers)
         /\ \A i \in DOMAIN out'.cells :
              /\ out'.cells[i].num = report.Numbers[i]
              /\ out'.cells[i].failed => out'.cells[i].bl = Nil
         /\ report'.Numbers = report.Numbers
         /\ Len(report'.Cols) = Len(report.Cols) + 1
         /\ DOMAIN report'.Rows = DOMAIN report.Rows \cup Range(report.Numbers)
         /\ \A num \in DOMAIN report'.Rows :
              report'.Rows[num] = RowOf(report, num) \o CellsFor(out'.cells, num)]_vars

\* C10 witness: the second node added fails on the first number and still
\* reports the second one, next to the first node's cells
C10_Witness ==
    /\ out.op = "AddToReport"
    /\ Len(report.Cols) = 2
    /\ Len(out.cells) = 2
    /\ out.cells[1].failed
    /\ out.cells[2].bl # Nil
    /\ out.cells[1].num # out.cells[2].num
    /\ report.Rows[out.cells[1].num][1] # EmptyString
    /\ report.Rows[out.cells[1].num][2] = EmptyString
    /\ report.Rows[out.cells[2].num][2] # EmptyString

\* every header the two calls received lies on one chain of the provider
OneChainSeen(o1, o2) ==
    \E g \in Forks :
        \A r \in Range(o1.rpcs) \cup Range(o2.rpcs) :
            r.ok => r.h = Header(r.h.num, g)

NoFailedFetch(o) == \A r \in Range(o.rpcs) : r.ok

OpFailed(o) == o.bl = Nil /\ (o.op = "UpdateLatest" => o.err)

\* C11 as stated: whenever a header fetch of an UpdateLatest or BlockAt
\* fails, the first one or a re-fetch of the ancestry walk, the operation
\* fails and chainHistory is what it was before the operation.
C11_AnyFailedFetchLeavesCache ==
    [][(IsFetchOp(out') /\ ~NoFailedFetch(out')) =>
         /\ OpFailed(out')
         /\ chainHistory' = chainHistory]_vars

\* C11 amended: when the fetch of the requested height fails, the operation
\* fails after that one request and chainHistory and latest are what they
\* were; when it succeeds the operation returns the fetched block without an
\* error and chainHistory holds it at its height, whatever happens to the
\* re-fetches of the ancestry walk.
C11_FirstFetchDecides ==
    [][(IsFetchOp(out') /\ out'.rpcs # <<>>) =>
         IF ~out'.rpcs[1].ok
         THEN /\ OpFailed(out')
              /\ Len(out'.rpcs) = 1
              /\ chainHistory' = chainHistory
              /\ latest' = latest
         ELSE /\ out'.bl = out'.rpcs[1].h
              /\ ~out'.err
              /\ out'.bl.num \in DOMAIN chainHistory'["n1"]
              /\ chainHistory'["n1"][out'.bl.num] = out'.bl]_vars

\* C11 witness: a forced BlockAt of a cached height whose fetch failed, the
\* cache holding every height
C11_Witness ==
    /\ out.op = "BlockAt"
    /\ out.force
    /\ Len(out.rpcs) = 1
    /\ ~out.rpcs[1].ok
    /\ out.bl = Nil
    /\ DOMAIN chainHistory["n1"] = Heights

\* C12: every node starts with status OK; SetStatus(s) on a node makes s
\* its status and leaves the other node's alone; UpdateLatest, BlockAt,
\* HashAt, Version and AddToReport leave every status as it is whether they
\* succeed or fail; Status() returns the status, which is therefore the
\* value of the latest SetStatus; the column AddToReport writes carries it.
C12_StatusOnlyBySetStatus ==
    /\ \A n \in Nodes : status[n] = NodeStatusOK
    /\ [][/\ out'.op = "SetStatus" =>
                status' = [status EXCEPT ![out'.node] = out'.status]
          /\ out'.op # "SetStatus" => status' = status
          /\ out'.op = "Status" => out'.status = status[out'.node]
          /\ out'.op = "BuildReport" =>
                report'.Cols[Len(report'.Cols)].Status = status[out'.node]]_vars

\* C12 witness: one node was set unreachable, the other is still OK, and an
\* UpdateLatest that found a head has left that status in place
C12_Witness ==
    /\ out.op = "UpdateLatest"
    /\ ~out.err
    /\ status["n1"] = NodeStatusUnreachable
    /\ status["n2"] = NodeStatusOK
    /\ latest["n1"] # Nil

\* the fields of node n (its gauge lives in the metrics registry)
NodeState(n) ==
    [chainHistory |-> chainHistory[n], latest |-> latest[n],
     lastProgress |-> lastProgress[n], version |-> version[n],
     status |-> status[n], lastCheck |-> lastCheck[n], throttle |-> throttle[n]]

\* the record a call on node n starts from when no other node has ever
\* written to the store
StartAlone(n) == [Start(n) EXCEPT !.db = EmptyDb]

\* C13: an UpdateLatest, BlockAt or Version on one node leaves every field
\* of every other node as it is, and what it does to its own node is what
\* it does from that node's fields alone, whatever the other nodes have put
\* into the store; the store only grows, by the hashes the step fetched.
C13_NodesIndependent ==
    [][/\ \A b \in Nodes \ {out'.node} : NodeState(b)' = NodeState(b)
       /\ LET n == out'.node
              ch == chainHistory'[n]
          IN  /\ out'.op = "UpdateLatest" =>
                    \E r \in fetchHeader(StartAlone(n), Latest, SameChain(n)) :
                        /\ r.w.cache = ch
                        /\ r.bl = out'.bl
                        /\ r.err = out'.err
                        /\ latest'[n] = IF ~r.err /\ progressed(latest[n], r.bl)
                                         THEN r.bl ELSE latest[n]
              /\ out'.op = "BlockAt" =>
                    \E r \in blockAt(StartAlone(n), latest[n], out'.num.at,
                                     out'.force, SameChain(n)) :
                        r.w.cache = ch /\ r.bl = out'.bl
       /\ db'.hashes = db.hashes \cup
              {out'.rpcs[i].h.hash : i \in {j \in DOMAIN out'.rpcs : out'.rpcs[j].ok}}]_vars

\* C13 witness: both nodes have fetched, each holds the headers of its own
\* provider only, and the store holds the hashes of both
C13_Witness ==
    /\ out.node = "n2"
    /\ out.rpcs # <<>>
    /\ DOMAIN chainHistory["n1"] = Heights
    /\ DOMAIN chainHistory["n2"] # {}
    /\ \A n \in Nodes : \A k \in DOMAIN chainHistory[n] :
           chainHistory[n][k] = Header(k, canon[n])
    /\ \E k \in DOMAIN chainHistory["n2"] :
           chainHistory["n1"][k] # chainHistory["n2"][k]
    /\ \A n \in Nodes : \E k \in DOMAIN chainHistory[n] :
           chainHistory[n][k].hash \in db.hashes
    /\ version["n1"] # version["n2"]

\* the filled cells of a row: their positions, and their texts
Filled(row) == {i \in DOMAIN row : row[i] # EmptyString}
FilledTexts(row) == {row[i] : i \in Filled(row)}

\* C14: onData marks a row "success" exactly when more than one cell is
\* filled and all filled cells are equal, "danger" exactly when more than
\* one cell is filled and two filled cells differ, and leaves it unmarked
\* when at most one cell is filled, for every row a Report can hold, in
\* every order of its cells.
C14_RowClassification ==
    out.op = "onData" =>
        \A i \in DOMAIN out.marks :
            LET row == report.Rows[report.Numbers[i]]
                many == Cardinality(Filled(row)) > 1
                same == Cardinality(FilledTexts(row)) = 1
            IN  /\ out.marks[i] = "success" <=> (many /\ same)
                /\ out.marks[i] = "danger" <=> (many /\ ~same)
                /\ out.marks[i] = "none" <=> ~many

\* C14 witness: a row of three filled cells, the first and the last equal
\* and the middle one different, marked "danger"
C14_Witness ==
    /\ out.op = "onData"
    /\ Len(out.marks) = 1
    /\ out.marks[1] = "danger"
    /\ LET row == report.Rows[report.Numbers[1]]
       IN  /\ Len(row) = 3
           /\ EmptyString \notin Range(row)
           /\ row[1] = row[3]
           /\ row[1] # row[2]

\* a call whose first fetch succeeded and one of whose re-fetches failed
WalkFailed(o) ==
    /\ IsFetchOp(o)
    /\ o.rpcs # <<>>
    /\ o.rpcs[1].ok
    /\ ~NoFailedFetch(o)

\* C15: when a re-fetch of the ancestry walk fails, the failed request is
\* the last one of the call, the call returns the header first fetched and
\* no error, chainHistory holds that header at its height and every
\* ancestor re-fetched before the failure as it was received, and the
\* height whose re-fetch failed, cached before, is absent from chainHistory
\* and not above latest, so that a later BlockAt of it fetches.
C15_FailedRefetchEndsWalk ==
    [][WalkFailed(out') =>
         LET last == Len(out'.rpcs)
             ch == chainHistory'["n1"]
         IN  /\ \A i \in 1..(last - 1) : out'.rpcs[i].ok
             /\ ~out'.rpcs[last].ok
             /\ out'.bl = out'.rpcs[1].h
             /\ ~out'.err
             /\ \A i \in 1..(last - 1) :
                    /\ out'.rpcs[i].h.num \in DOMAIN ch
                    /\ ch[out'.rpcs[i].h.num] = out'.rpcs[i].h
             /\ out'.rpcs[last].num.at \notin DOMAIN ch
             /\ out'.rpcs[last].num.at \in DOMAIN chainHistory["n1"]
             /\ ~IsFuture(latest'["n1"], out'.rpcs[last].num.at)]_vars

\* C15 witness: a walk that replaced one stale ancestor and failed on the
\* next one
C15_Witness ==
    /\ WalkFailed(out)
    /\ Len(out.rpcs) = 3
    /\ out.rpcs[2].ok
    /\ ~out.rpcs[3].ok
    /\ out.bl = chainHistory["n1"][out.bl.num]
    /\ chainHistory["n1"][out.rpcs[2].h.num] = out.rpcs[2].h
    /\ out.rpcs[3].num.at \notin DOMAIN chainHistory["n1"]

\* the walk goes on below the header received by request r of a call that
\* started from cache ch: the height below is cached and its hash is not
\* the parent hash received
GoesOn(ch, r) ==
    /\ r.ok
    /\ Pred(r.h.num) \in DOMAIN ch
    /\ ch[Pred(r.h.num)].hash # r.h.pHash

C17_OneRequestPerMismatch ==
    [][(IsFetchOp(out') /\ out'.rpcs # <<>>) =>
         LET rpcs == out'.rpcs
             n == Len(rpcs)
         IN  /\ n = 1 + out'.reorgs
             /\ rpcs[1].num = IF out'.op = "UpdateLatest" THEN Latest ELSE out'.num
             /\ \A k \in 1..(n - 1) : rpcs[1 + k].num = At(rpcs[1].h.num - k)
             /\ out'.deleted = {rpcs[1 + k].num.at : k \in 1..(n - 1)}
             /\ Cardinality(out'.deleted) = out'.reorgs
             /\ \A i, j \in 1..n : i # j => rpcs[i].num # rpcs[j].num
             /\ \A i \in 1..n : ~rpcs[i].ok => i = n]_vars

\* C17 witness: a forced BlockAt of the top height that found two stale
\* ancestors and issued three requests, the last of which failed
C17_Witness ==
    /\ out.op = "BlockAt"
    /\ out.force
    /\ out.num = At(MaxHeight)
    /\ out.reorgs = 2
    /\ Len(out.rpcs) = 3
    /\ out.rpcs[2].num = At(MaxHeight - 1)
    /\ out.rpcs[3].num = At(MaxHeight - 2)
    /\ ~out.rpcs[3].ok

\* the number of entries of a log that are e
RECURSIVE CountOf(_, _)
CountOf(log, e) ==
    IF log = <<>> THEN 0
    ELSE (IF Head(log) = e THEN 1 ELSE 0) + CountOf(Tail(log), e)

\* C18: in every operation of a node, every RPC request sent (header
\* fetch, re-fetch of the walk, version probe) comes right after one Take()
\* on the node's limiter and every Take() is followed by its request: the
\* operation's events are take, rpc, take, rpc, ..., one pair per request,
\* so at no point have more requests been sent than Take() calls returned.
C18_TakeBeforeEveryCall ==
    /\ Len(out.events) % 2 = 0
    /\ \A i \in DOMAIN out.events :
           out.events[i] = IF i % 2 = 1 THEN "take" ELSE "rpc"
    /\ CountOf(out.events, "rpc") = Len(out.rpcs) + out.vcalls
    /\ CountOf(out.events, "take") = out.takes
    /\ out.takes = Len(out.rpcs) + out.vcalls

\* C18 witness: a report built with a version probe, a header fetch and a
\* re-fetch of the walk, each behind its own Take()
C18_Witness ==
    /\ out.op = "BuildReport"
    /\ out.vcalls = 1
    /\ out.reorgs >= 1
    /\ Len(out.rpcs) >= 2
    /\ out.takes = Len(out.rpcs) + 1
    /\ Len(out.events) = 2 * out.takes

\* C19 as stated: whatever AddToReport calls a Report has seen, the row of
\* every number of its list has one cell per column, the i-th cell written
\* by the i-th node added, also when a number occurs twice in the list.
C19_OneCellPerColumn ==
    \A num \in Range(report.Numbers) :
        Len(RowOf(report, num)) = Len(report.Cols)

\* C20 as stated: after any sequence of store calls with distinct hashes
\* miniFIFO holds at most 100 retrievable entries, namely the most recent
\* ones: a hash is retrievable exactly when it is one of the last 100
\* stored, so the oldest is gone once a 101st is stored, and has and get
\* answer accordingly.
C20_FifoBounded ==
    /\ Cardinality(DOMAIN miniFIFO.data) <= FifoLimit
    /\ DOMAIN miniFIFO.data = Range(miniFIFO.fifo)
    /\ out.op = "has" => (out.found <=> out.hash \in Range(miniFIFO.fifo))
    /\ out.op = "get" => (out.got # <<>> <=> out.hash \in Range(miniFIFO.fifo))

=============================================================================
